---- MODULE Spec2Model ----
(***************************************************************************)
(* Model of the pythia-project/libs grading pipeline.                      *)
(*                                                                         *)
(* Six programs are modelled, selected by the variable flavour:            *)
(*   "utbt"  the unit-testing flavour: the Java runner (Runner.run,        *)
(*           TestSuite.check) writes one outcome file per actor, and the   *)
(*           Go feedback subcommand of pythia-utbt.go reads them back with *)
(*           readLines and grades them against the dataset;                *)
(*   "iot"   the input/output flavour of pythia-iot/main.go: execute runs  *)
(*           one command per predefined test and writes res.json, and      *)
(*           feedback grades res.json against the expected outputs;        *)
(*   "pexec" the stand-alone pythia-execute/main.go (compile, then run),   *)
(*           first version;                                                *)
(*   "exec"  its second version, built on utils.Execute;                   *)
(*   "generate" the generate subcommand of pythia-utbt.go with the         *)
(*           generators package;                                           *)
(*   "test"  the test subcommand of pythia-iot/main.go: compile and run    *)
(*           for each input, and compare with the expected outputs.       *)
(*                                                                         *)
(* A text is a sequence of atoms.  An atom is either a separator           *)
(* character (":", "\n", " ") or an indivisible word ("checked", "5").     *)
(* The empty Go/Java string is the empty sequence.                         *)
(***************************************************************************)
EXTENDS Integers, Sequences, FiniteSets, TLC

VARIABLES
    flavour,    \* which program runs: "utbt", "iot", "pexec", "exec" or "generate"
    outErr,     \* the file output/out.err: <<>> when absent, else <<content>>
    outputs,    \* test: the standard output obtained for each input
    pc,         \* position of the running pipeline
    dataset,    \* utbt: rows of /tmp/work/input/data.csv
    student,    \* utbt: what the learner's method does on each row
    teacher,    \* utbt: what the author's method answers on each row
    dataRes,    \* utbt: content of output/data.res     (<<>> = not written, <<text>>)
    solutionRes,\* utbt: content of output/solution.res (<<>> = not written, <<text>>)
    results,    \* utbt: lines of data.res as read by feedback; iot: output.Results;
                \* test: whether each output is the expected one
    solutions,  \* utbt: lines of solution.res as read by feedback
    resJson,    \* iot: content of output/res.json (<<>> = not written, <<results>>)
    tests,      \* iot: config.Predefined
    procs,      \* iot/pexec: behaviour of the external command on each invocation
    i,          \* loop index of the running loop (0-based, as in the code)
    stats,      \* Stats{Succeeded, Total}
    feedbackV,  \* Feedback{Message, Example, Score}; Example is <<>> (nil) or <<e>>
    status,     \* grading.Status
    execResult, \* pexec: ExecutionResult{ReturnCode, StdOut, StdErr}
    printed,    \* what the program printed on stdout: <<>> or <<report>>
    fatal,      \* "none", or the reason the process died
    invoked,    \* pexec/exec: the commands handed to the operating system so far
    config,     \* generate: the Config read from the specification files;
                \* test: the TestConfiguration read from stdin
    generators  \* generate: <<>> before BuildGenerators, then <<its result>>

vars == <<flavour, outErr, outputs, pc, dataset, student, teacher, dataRes, solutionRes, results,
          solutions, resJson, tests, procs, i, stats, feedbackV, status, execResult,
          printed, fatal, invoked, config, generators>>

(***************************************************************************)
(* Bounds                                                                  *)
(***************************************************************************)
MaxRecords == 2

\* largest value of config.Random.N
MaxRandom == 2

\* number of bits of the int type (64 in the build); rand.Int63() draws a
\* non-negative value of one bit less
IntBits == 8

(***************************************************************************)
(* Text helpers (strings.Split, strings.TrimSpace, strings.Join)           *)
(***************************************************************************)
Whitespace == {"\n", " "}

RECURSIVE IndexOf(_, _, _)
\* first position >= from of atom sep in text s, 0 when there is none
IndexOf(s, sep, from) ==
    IF from > Len(s) THEN 0
    ELSE IF s[from] = sep THEN from
    ELSE IndexOf(s, sep, from + 1)

RECURSIVE Split(_, _)
\* strings.Split(s, sep): always at least one element
Split(s, sep) ==
    LET k == IndexOf(s, sep, 1) IN
    IF k = 0 THEN <<s>>
    ELSE <<SubSeq(s, 1, k - 1)>> \o Split(SubSeq(s, k + 1, Len(s)), sep)

\* strings.SplitN(s, sep, 2)
SplitN2(s, sep) ==
    LET k == IndexOf(s, sep, 1) IN
    IF k = 0 THEN <<s>>
    ELSE <<SubSeq(s, 1, k - 1), SubSeq(s, k + 1, Len(s))>>

RECURSIVE TrimLeft(_)
TrimLeft(s) ==
    IF s # <<>> /\ Head(s) \in Whitespace THEN TrimLeft(Tail(s)) ELSE s

RECURSIVE TrimRight(_)
TrimRight(s) ==
    IF s # <<>> /\ s[Len(s)] \in Whitespace
    THEN TrimRight(SubSeq(s, 1, Len(s) - 1)) ELSE s

\* strings.TrimSpace
TrimSpace(s) == TrimRight(TrimLeft(s))

RECURSIVE Join(_, _)
\* strings.Join(parts, sep)
Join(parts, sep) ==
    IF parts = <<>> THEN <<>>
    ELSE IF Len(parts) = 1 THEN parts[1]
    ELSE parts[1] \o <<sep>> \o Join(Tail(parts), sep)

(***************************************************************************)
(* Inputs of the unit-testing flavour                                      *)
(***************************************************************************)
\* Row k of the dataset file: two fields, each a text; rows are pairwise
\* distinct.
Row(k) == << <<ToString(k)>>, <<ToString(k + 1)>> >>

DatasetOf(n) == [k \in 1..n |-> Row(k)]

\* Row k with a first field that is no integer literal
BadRow(k) == << <<"x">>, <<ToString(k + 1)>> >>

\* the dataset of n rows whose rows in bad are of the second sort
DatasetWith(n, bad) == [k \in 1..n |-> IF k \in bad THEN BadRow(k) ELSE Row(k)]

\* What evaluating the learner's method on one row can yield: an answer
\* (kind "checked"), an exception raised by the method itself (kind "throws",
\* payload = its description), an exception that escapes code(data) (kind
\* "exception", payload = its description) or a refusal by the moreCheck
\* hook (kind "error").
StudentOutcomes ==
    { [kind |-> "checked",   payload |-> <<"5">>],
      [kind |-> "checked",   payload |-> <<"7">>],
      [kind |-> "checked",   payload |-> <<>>],
      [kind |-> "checked",   payload |-> <<"5", ":", "7">>],
      [kind |-> "error",     payload |-> <<"5">>],
      [kind |-> "throws",    payload |-> <<"boom">>],
      [kind |-> "exception", payload |-> <<"boom", "\n", "at">>] }

\* What the author's method can answer on one row.
TeacherAnswers ==
    { <<"5">>, <<"7">>, <<>>, <<"5", ":", "7">>, <<"5", "\n", "7">> }

(***************************************************************************)
(* Java runner: Runner.check, TestSuite.check, Runner.run                  *)
(***************************************************************************)
\* Runner.check: String.format("%s", code(data))
RunnerCheck(answer) == answer

\* TestSuite.moreCheck as seen by TestSuite.check: "passed" unless the hook
\* refuses the answer.
moreCheck(o) ==
    IF o.kind = "error" THEN <<"error", ":">> \o o.payload ELSE <<"passed">>

\* code(data) of the anonymous TestSuite of Execute.main: the result of
\* method.invoke, or null when the InvocationTargetException that wraps an
\* exception of the learner's method is caught (and dropped)
StudentCode(o) == IF o.kind = "throws" THEN <<"null">> ELSE o.payload

\* TestSuite.check
TestSuiteCheck(o) ==
    IF o.kind = "exception" THEN <<"exception", ":">> \o o.payload
    ELSE IF moreCheck(o) # <<"passed">> THEN moreCheck(o)
    ELSE <<"checked", ":">> \o StudentCode(o)

\* Runner.parse for the type "int": Integer.valueOf(data) returns, or raises
\* NumberFormatException
IsInteger(data) ==
    Len(data) = 1 /\ data[1] \in {ToString(n) : n \in 0..(MaxRecords + 1)}

\* Runner.parseTestData returns
Decodes(row) == \A f \in 1..Len(row) : IsInteger(row[f])

\* the first row on which parseTestData raises (0 = none): Runner.run does
\* not catch it, the writer is closed and main ends with the exception
AbortsAt(ds) ==
    IF \A k \in 1..Len(ds) : Decodes(ds[k]) THEN 0
    ELSE CHOOSE k \in 1..Len(ds) :
            ~Decodes(ds[k]) /\ \A j \in 1..(k - 1) : Decodes(ds[j])

\* number of rows Runner.run evaluates and writes a line for
Evaluated(ds) == IF AbortsAt(ds) = 0 THEN Len(ds) ELSE AbortsAt(ds) - 1

RECURSIVE RunnerRun(_)
\* Runner.run: for each row, writer.write(res); writer.write('\n')
RunnerRun(ress) ==
    IF ress = <<>> THEN <<>>
    ELSE Head(ress) \o <<"\n">> \o RunnerRun(Tail(ress))

(***************************************************************************)
(* pythia-utbt.go: readLines and the feedback loop                         *)
(***************************************************************************)
\* readLines: strings.Split(strings.TrimSpace(content), "\n")
readLines(content) == Split(TrimSpace(content), "\n")

NoStats == [Succeeded |-> 0, Total |-> 0]

\* var feedback Feedback: Example, Stats are nil pointers (<<>>), Score is 0
NoFeedback == [Message |-> <<>>, Example |-> <<>>, Stats |-> <<>>,
               Score |-> [num |-> 0, den |-> 1]]

\* float32(a) / float32(b), kept as the exact ratio; 0/0 is NaN
Divide(a, b) == [num |-> a, den |-> b]

IsNaN(q) == q.num = 0 /\ q.den = 0

\* json.Marshal(grading) returns an UnsupportedValueError on a NaN score
MarshalFails(fb) == IsNaN(fb.Score)

\* content of /tmp/work/tid
Tid == <<"task">>

\* the Grading struct handed to json.Marshal
Grading(st, fb) == [Tid |-> Tid, Status |-> st, Feedback |-> <<fb>>]

\* The fields json.Marshal writes for a Feedback: a field tagged omitempty
\* is left out when it is the empty string, a nil pointer or the number 0.
\* Score is tagged omitempty in pythia-utbt.go, not in pythia-iot/main.go.
FeedbackFields(fb) ==
    (IF fb.Message # <<>> THEN {"message"} ELSE {})
        \cup (IF fb.Example # <<>> THEN {"example"} ELSE {})
        \cup (IF fb.Stats # <<>> THEN {"stats"} ELSE {})
        \cup (IF flavour = "utbt" /\ fb.Score.num = 0 THEN {} ELSE {"score"})

\* The fields json.Marshal writes for a Grading
GradingFields(g) ==
    {"tid", "status"} \cup (IF g.Feedback # <<>> THEN {"feedback"} ELSE {})

ErrorMessage(kindToken) == <<"An error occurred with your code: ">> \o kindToken

UtbtExample(row, expected, actual) ==
    [Input    |-> <<"(">> \o Join(row, ",") \o <<")">>,
     Expected |-> expected,
     Actual   |-> actual]

\* The default case of the switch on tokens[0]: the record failed, and the
\* first such record sets the message.  (Variant that forgets to fail the
\* grading, and variant that overwrites the message, first.)
UtbtDefaultCase_StatusKept(g, tokens) ==
    IF g.fb.Message = <<>>
    THEN [g EXCEPT !.fb.Message = ErrorMessage(tokens[1])]
    ELSE g

UtbtDefaultCase_Overwrite(g, tokens) ==
    [g EXCEPT !.status = "failed", !.fb.Message = ErrorMessage(tokens[1])]

UtbtDefaultCase(g, tokens) ==
    IF g.fb.Message = <<>>
    THEN [g EXCEPT !.status = "failed", !.fb.Message = ErrorMessage(tokens[1])]
    ELSE [g EXCEPT !.status = "failed"]

\* The case "checked" of the switch: tokens[1] against solutions[i].
\* (Variant that records the example without failing the grading, first.)
UtbtCheckedCase_StatusKept(g, row, k, tokens) ==
    IF Len(tokens) < 2 \/ k >= Len(solutions)
    THEN [g EXCEPT !.fatal = "panic: index out of range"]
    ELSE IF tokens[2] = solutions[k + 1]
    THEN [g EXCEPT !.stats.Succeeded = @ + 1]
    ELSE IF g.fb.Example = <<>>
    THEN [g EXCEPT !.fb.Example = <<UtbtExample(row, solutions[k + 1], tokens[2])>>]
    ELSE g

UtbtCheckedCase(g, row, k, tokens) ==
    IF Len(tokens) < 2 \/ k >= Len(solutions)
    THEN [g EXCEPT !.fatal = "panic: index out of range"]
    ELSE IF tokens[2] = solutions[k + 1]
    THEN [g EXCEPT !.stats.Succeeded = @ + 1]
    ELSE IF g.fb.Example = <<>>
    THEN [g EXCEPT !.status = "failed",
                   !.fb.Example = <<UtbtExample(row, solutions[k + 1], tokens[2])>>]
    ELSE g

\* One iteration of the loop of feedback (pythia-utbt.go) on row number k
\* (0-based) of the dataset.  g is [stats, fb, status, fatal]; an index out
\* of range is a run-time panic.
UtbtIterate(g, row, k) ==
    IF k >= Len(results) THEN [g EXCEPT !.fatal = "panic: index out of range"]
    ELSE
    LET tokens == Split(results[k + 1], ":") IN
    IF tokens[1] = <<"checked">>
    THEN UtbtCheckedCase(g, row, k, tokens)
    ELSE UtbtDefaultCase(g, tokens)

\* The end of feedback, after the loop: feedback.Stats, feedback.Score and
\* the report, which is printed unless json.Marshal fails.
FeedbackFinish(g) ==
    LET sts == g.stats
        fb  == [g.fb EXCEPT !.Stats = <<sts>>,
                            !.Score = Divide(sts.Succeeded, sts.Total)]
    IN  [stats   |-> sts,
         fb      |-> fb,
         printed |-> IF MarshalFails(fb) THEN <<>> ELSE <<Grading(g.status, fb)>>,
         fatal   |-> IF MarshalFails(fb) THEN "json: unsupported value: NaN" ELSE "none"]

(***************************************************************************)
(* The unit-testing pipeline: execute (student), feedback (teacher run,    *)
(* then the grading loop)                                                  *)
(***************************************************************************)
Locals == [stats |-> stats, fb |-> feedbackV, status |-> status, fatal |-> fatal]

\* execute: the learner's code runs under TestSuite and writes data.res
UtbtExecute ==
    /\ flavour = "utbt" /\ pc = "execute"
    /\ dataRes' = <<RunnerRun([k \in 1..Evaluated(dataset) |-> TestSuiteCheck(student[k])])>>
    /\ IF AbortsAt(dataset) = 0
       THEN pc' = "feedback" /\ UNCHANGED fatal
       ELSE pc' = "dead" /\ fatal' = "execute: exit status 1"
    /\ UNCHANGED <<invoked, config, generators, flavour, outErr, outputs, dataset, student, teacher, solutionRes, results,
                   solutions, resJson, tests, procs, i, stats, feedbackV, status,
                   execResult, printed>>

\* feedback when output/out.err can be read: the report is printed at once,
\* with the content of the file as message, and feedback returns
UtbtFeedbackStdErr ==
    /\ flavour = "utbt" /\ pc = "feedback"
    /\ outErr # <<>>
    /\ status' = "failed"
    /\ feedbackV' = [NoFeedback EXCEPT !.Message = outErr[1]]
    /\ printed' = <<Grading("failed", [NoFeedback EXCEPT !.Message = outErr[1]])>>
    /\ pc' = "done"
    /\ UNCHANGED <<invoked, config, generators, flavour, outErr, outputs, dataset, student, teacher,
                   dataRes, solutionRes, results, solutions, resJson, tests, procs, i,
                   stats, execResult, fatal>>

\* (Variant of the step below that writes the dataset file again, in the
\* reverse order.)
UtbtExecuteSolution_Regenerates ==
    /\ flavour = "utbt" /\ pc = "feedback"
    /\ outErr = <<>>
    /\ solutionRes' = <<RunnerRun([k \in 1..Evaluated(dataset) |-> RunnerCheck(teacher[k])])>>
    /\ IF AbortsAt(dataset) = 0
       THEN pc' = "read" /\ UNCHANGED fatal
       ELSE pc' = "dead" /\ fatal' = "feedback: exit status 1"
    /\ dataset' = [k \in 1..Len(dataset) |-> dataset[Len(dataset) + 1 - k]]
    /\ UNCHANGED <<invoked, config, generators, flavour, outErr, outputs, student, teacher, dataRes, results,
                   solutions, resJson, tests, procs, i, stats, feedbackV, status,
                   execResult, printed>>

\* feedback, first part: executeSolution runs the author's code under Runner,
\* which writes solution.res
UtbtExecuteSolution ==
    /\ flavour = "utbt" /\ pc = "feedback"
    /\ outErr = <<>>
    /\ solutionRes' = <<RunnerRun([k \in 1..Evaluated(dataset) |-> RunnerCheck(teacher[k])])>>
    /\ IF AbortsAt(dataset) = 0
       THEN pc' = "read" /\ UNCHANGED fatal
       ELSE pc' = "dead" /\ fatal' = "feedback: exit status 1"
    /\ UNCHANGED <<invoked, config, generators, flavour, outErr, outputs, dataset, student, teacher, dataRes, results,
                   solutions, resJson, tests, procs, i, stats, feedbackV, status,
                   execResult, printed>>

\* feedback, second part: initialisation and the two readLines calls
UtbtReadLines ==
    /\ flavour = "utbt" /\ pc = "read"
    /\ stats' = NoStats
    /\ feedbackV' = NoFeedback
    /\ status' = "success"
    /\ results' = readLines(dataRes[1])
    /\ solutions' = readLines(solutionRes[1])
    /\ i' = 0
    /\ pc' = "loop"
    /\ UNCHANGED <<invoked, config, generators, flavour, outErr, outputs, dataset, student, teacher, dataRes, solutionRes,
                   resJson, tests, procs, execResult, printed, fatal>>

\* feedback, third part: one row is read from data.csv and graded
UtbtFeedbackLoop ==
    /\ flavour = "utbt" /\ pc = "loop"
    /\ i < Len(dataset)
    /\ LET g == UtbtIterate(Locals, dataset[i + 1], i) IN
        /\ stats' = g.stats
        /\ feedbackV' = g.fb
        /\ status' = g.status
        /\ fatal' = g.fatal
        /\ pc' = IF g.fatal = "none" THEN "loop" ELSE "dead"
    /\ i' = i + 1
    /\ UNCHANGED <<invoked, config, generators, flavour, outErr, outputs, dataset, student, teacher, dataRes, solutionRes,
                   results, solutions, resJson, tests, procs, execResult,
                   printed>>

\* feedback, last part: reader.Read returned io.EOF; stats.Total = i
UtbtFeedbackEnd ==
    /\ flavour = "utbt" /\ pc = "loop"
    /\ i = Len(dataset)
    /\ LET f == FeedbackFinish([Locals EXCEPT !.stats.Total = i]) IN
        /\ stats' = f.stats
        /\ feedbackV' = f.fb
        /\ printed' = f.printed
        /\ fatal' = f.fatal
        /\ pc' = IF f.fatal = "none" THEN "done" ELSE "dead"
    /\ UNCHANGED <<invoked, config, generators, flavour, outErr, outputs, dataset, student, teacher, dataRes, solutionRes,
                   results, solutions, resJson, tests, procs, i, status,
                   execResult>>

(***************************************************************************)
(* External commands                                                       *)
(***************************************************************************)
\* var execResult ExecutionResult
NoExecResult == [ReturnCode |-> 0, StdOut |-> <<>>, StdErr |-> <<>>]

\* What one invocation of an external command can do: exit with a code,
\* be killed by a signal, not start at all (how = "nostart") or never
\* terminate (how = "hang").
Behaviours ==
    { [how |-> "exit",    code |-> 0, stdout |-> <<"5">>,       stderr |-> <<>>],
      [how |-> "exit",    code |-> 0, stdout |-> <<"5", "\n">>, stderr |-> <<>>],
      [how |-> "exit",    code |-> 0, stdout |-> <<"7">>,       stderr |-> <<>>],
      [how |-> "exit",    code |-> 1, stdout |-> <<"5">>,       stderr |-> <<"boom">>],
      [how |-> "exit",    code |-> 1, stdout |-> <<"5">>,       stderr |-> <<>>],
      [how |-> "exit",    code |-> 1, stdout |-> <<>>,          stderr |-> <<>>],
      [how |-> "signal",  code |-> 0, stdout |-> <<>>,          stderr |-> <<>>],
      [how |-> "nostart", code |-> 0, stdout |-> <<>>,          stderr |-> <<>>],
      [how |-> "hang",    code |-> 0, stdout |-> <<>>,          stderr |-> <<>>] }

\* generate has not read any configuration
NoConfig == [Predefined |-> <<>>, N |-> 0, Args |-> <<>>]

\* the flag holding the command is the empty string
Unset == [how |-> "unset", code |-> 0, stdout |-> <<>>, stderr |-> <<>>]

\* cmd.Run() returns: it waits for the command to complete, whatever the
\* time that takes
Returns(b) == b.how # "hang"

\* cmd.Run() returns a non-nil error
RunFails(b) == b.how # "exit" \/ b.code # 0

\* status.ExitStatus() of an *exec.ExitError: -1 when killed by a signal;
\* an error that is no ExitError leaves the return code at 0
ExitStatus(b) ==
    IF b.how = "exit" THEN b.code
    ELSE IF b.how = "signal" THEN -1
    ELSE 0

(***************************************************************************)
(* pythia-iot/main.go: executeCommand, execute, feedback                   *)
(***************************************************************************)
\* executeCommand: the tagged output, or an error.  (Variant that looks at
\* stdout before stderr, first.)
executeCommand_StdoutFirst(b) ==
    IF RunFails(b) THEN
        IF Len(b.stdout) > 0
        THEN [out |-> <<"error", "\n">> \o b.stdout, err |-> FALSE]
        ELSE IF Len(b.stderr) > 0
        THEN [out |-> <<"error", "\n">> \o b.stderr, err |-> FALSE]
        ELSE [out |-> <<>>, err |-> TRUE]
    ELSE [out |-> <<"checked", "\n">> \o b.stdout, err |-> FALSE]

\* executeCommand: the tagged output, or an error.  (Variant that reports a
\* failure without any output as an error outcome with an empty payload.)
executeCommand_SilentIsError(b) ==
    IF RunFails(b) THEN
        IF Len(b.stderr) > 0
        THEN [out |-> <<"error", "\n">> \o b.stderr, err |-> FALSE]
        ELSE [out |-> <<"error", "\n">> \o b.stdout, err |-> FALSE]
    ELSE [out |-> <<"checked", "\n">> \o b.stdout, err |-> FALSE]

executeCommand(b) ==
    IF RunFails(b) THEN
        IF Len(b.stderr) > 0
        THEN [out |-> <<"error", "\n">> \o b.stderr, err |-> FALSE]
        ELSE IF Len(b.stdout) > 0
        THEN [out |-> <<"error", "\n">> \o b.stdout, err |-> FALSE]
        ELSE [out |-> <<>>, err |-> TRUE]
    ELSE [out |-> <<"checked", "\n">> \o b.stdout, err |-> FALSE]

\* execute: tokens := strings.SplitN(stdout, "\n", 2)
ResultOf(out) ==
    LET tokens == SplitN2(out, "\n") IN
    [Status |-> tokens[1], Output |-> tokens[2]]

NoResult == [Status |-> <<>>, Output |-> <<>>]

\* Test number k of config.Predefined, with the expected output out
TestOf(k, out) ==
    [Input |-> <<ToString(k)>>, Output |-> out, Message |-> <<"hint", ToString(k)>>]

ExpectedOutputs == { <<"5">>, <<"7">> }

\* The test of the loop of feedback:
\* result.Status == "checked" && test.Output == result.Output.  (Variant
\* that compares the outputs only, first.)
IotSucceeded_OutputOnly(result, test) == test.Output = result.Output

IotSucceeded(result, test) ==
    result.Status = <<"checked">> /\ test.Output = result.Output

\* One iteration of the loop of feedback (pythia-iot/main.go) on test
\* number k (0-based).
IotIterate(g, test, k) ==
    IF k >= Len(results) THEN [g EXCEPT !.fatal = "panic: index out of range"]
    ELSE
    LET result == results[k + 1] IN
    IF IotSucceeded(result, test)
    THEN [g EXCEPT !.stats.Succeeded = @ + 1]
    ELSE IF g.fb.Example = <<>>
    THEN [g EXCEPT !.status = "failed",
                   !.fb.Example = <<[Input    |-> test.Input,
                                     Expected |-> test.Output,
                                     Actual   |-> result.Output]>>,
                   !.fb.Message = IF result.Status = <<"checked">>
                                  THEN test.Message ELSE @]
    ELSE g

\* execute, first part: the configuration is read and output.Results allocated
IotExecuteStart ==
    /\ flavour = "iot" /\ pc = "start"
    /\ results' = [k \in 1..Len(tests) |-> NoResult]
    /\ i' = 0
    /\ pc' = "execute"
    /\ UNCHANGED <<invoked, config, generators, flavour, outErr, outputs, dataset, student, teacher, dataRes, solutionRes,
                   solutions, resJson, tests, procs, stats, feedbackV, status,
                   execResult, printed, fatal>>

\* execute, second part: the command is run on test number i
IotExecuteLoop ==
    /\ flavour = "iot" /\ pc = "execute"
    /\ i < Len(tests)
    /\ Returns(procs[i + 1])
    /\ LET r == executeCommand(procs[i + 1]) IN
        IF r.err
        THEN /\ fatal' = "execute: command failed"
             /\ pc' = "dead"
             /\ UNCHANGED results
        ELSE /\ results' = [results EXCEPT ![i + 1] = ResultOf(r.out)]
             /\ pc' = "execute"
             /\ UNCHANGED fatal
    /\ i' = i + 1
    /\ UNCHANGED <<invoked, config, generators, flavour, outErr, outputs, dataset, student, teacher, dataRes, solutionRes,
                   solutions, resJson, tests, procs, stats, feedbackV, status,
                   execResult, printed>>

\* execute, last part: res.json is written
IotExecuteEnd ==
    /\ flavour = "iot" /\ pc = "execute"
    /\ i = Len(tests)
    /\ resJson' = <<results>>
    /\ pc' = "feedback"
    /\ UNCHANGED <<invoked, config, generators, flavour, outErr, outputs, dataset, student, teacher, dataRes, solutionRes,
                   results, solutions, tests, procs, i, stats, feedbackV,
                   status, execResult, printed, fatal>>

\* feedback, first part: test.json and res.json are read
IotFeedbackStart ==
    /\ flavour = "iot" /\ pc = "feedback"
    /\ results' = resJson[1]
    /\ stats' = [Succeeded |-> 0, Total |-> Len(tests)]
    /\ feedbackV' = NoFeedback
    /\ status' = "success"
    /\ i' = 0
    /\ pc' = "loop"
    /\ UNCHANGED <<invoked, config, generators, flavour, outErr, outputs, dataset, student, teacher, dataRes, solutionRes,
                   solutions, resJson, tests, procs, execResult, printed, fatal>>

\* feedback, second part: one test is graded
IotFeedbackLoop ==
    /\ flavour = "iot" /\ pc = "loop"
    /\ i < Len(tests)
    /\ LET g == IotIterate(Locals, tests[i + 1], i) IN
        /\ stats' = g.stats
        /\ feedbackV' = g.fb
        /\ status' = g.status
        /\ fatal' = g.fatal
        /\ pc' = IF g.fatal = "none" THEN "loop" ELSE "dead"
    /\ i' = i + 1
    /\ UNCHANGED <<invoked, config, generators, flavour, outErr, outputs, dataset, student, teacher, dataRes, solutionRes,
                   results, solutions, resJson, tests, procs, execResult,
                   printed>>

\* feedback, last part: the report
IotFeedbackEnd ==
    /\ flavour = "iot" /\ pc = "loop"
    /\ i = Len(tests)
    /\ LET f == FeedbackFinish(Locals) IN
        /\ stats' = f.stats
        /\ feedbackV' = f.fb
        /\ printed' = f.printed
        /\ fatal' = f.fatal
        /\ pc' = IF f.fatal = "none" THEN "done" ELSE "dead"
    /\ UNCHANGED <<invoked, config, generators, flavour, outErr, outputs, dataset, student, teacher, dataRes, solutionRes,
                   results, solutions, resJson, tests, procs, i, status,
                   execResult>>

(***************************************************************************)
(* pythia-execute/main.go (first version): compile, then execute           *)
(***************************************************************************)
\* The compile phase: the result, and whether main goes on (next), prints
\* the result and exits (print) or dies in log.Fatalf (fatal).
PexecCompilePhase(b) ==
    IF b.how = "unset" THEN [res |-> NoExecResult, then |-> "next"]
    ELSE IF RunFails(b) THEN
        IF Len(b.stderr) > 0
        THEN [res |-> [ReturnCode |-> ExitStatus(b), StdOut |-> <<>>, StdErr |-> b.stderr],
              then |-> "print"]
        ELSE [res |-> [ReturnCode |-> ExitStatus(b), StdOut |-> <<>>, StdErr |-> <<>>],
              then |-> "fatal"]
    ELSE [res |-> NoExecResult, then |-> "next"]

\* The execute phase, entered with the result left by the compile phase.
PexecExecutePhase(res, b) ==
    IF b.how = "unset" THEN [res |-> res, then |-> "exit"]
    ELSE IF RunFails(b) THEN
        IF Len(b.stderr) > 0
        THEN [res |-> [res EXCEPT !.ReturnCode = ExitStatus(b), !.StdErr = b.stderr],
              then |-> "print"]
        ELSE IF Len(b.stdout) > 0
        THEN [res |-> [res EXCEPT !.ReturnCode = ExitStatus(b), !.StdOut = b.stdout],
              then |-> "print"]
        ELSE [res |-> [res EXCEPT !.ReturnCode = ExitStatus(b)], then |-> "fatal"]
    ELSE [res |-> [res EXCEPT !.StdOut = b.stdout], then |-> "print"]

PexecCompile ==
    /\ flavour = "pexec" /\ pc = "compile"
    /\ Returns(procs[1])
    /\ LET r == PexecCompilePhase(procs[1]) IN
        /\ execResult' = r.res
        /\ printed' = IF r.then = "print" THEN <<r.res>> ELSE <<>>
        /\ fatal' = IF r.then = "fatal" THEN "compilation command failed" ELSE "none"
        /\ pc' = CASE r.then = "next"  -> "run"
                   [] r.then = "print" -> "done"
                   [] OTHER            -> "dead"
    /\ invoked' = IF procs[1].how = "unset" THEN invoked
                  ELSE Append(invoked, "compile")
    /\ UNCHANGED <<config, generators, flavour, outErr, outputs, dataset, student, teacher, dataRes, solutionRes,
                   results, solutions, resJson, tests, procs, i, stats,
                   feedbackV, status>>

PexecExecute ==
    /\ flavour = "pexec" /\ pc = "run"
    /\ Returns(procs[2])
    /\ LET r == PexecExecutePhase(execResult, procs[2]) IN
        /\ execResult' = r.res
        /\ printed' = IF r.then = "print" THEN <<r.res>> ELSE <<>>
        /\ fatal' = IF r.then = "fatal" THEN "execution command failed" ELSE "none"
        /\ pc' = IF r.then = "fatal" THEN "dead" ELSE "done"
    /\ invoked' = IF procs[2].how = "unset" THEN invoked
                  ELSE Append(invoked, "execute")
    /\ UNCHANGED <<config, generators, flavour, outErr, outputs, dataset, student, teacher, dataRes, solutionRes,
                   results, solutions, resJson, tests, procs, i, stats,
                   feedbackV, status>>

(***************************************************************************)
(* pythia/utils/utils.go and pythia-execute/main.go (second version)       *)
(***************************************************************************)
\* getExitStatus: the exit status of an *exec.ExitError (-1 when the process
\* was killed by a signal), and 0 for every other error of cmd.Run()
getExitStatus(b) ==
    IF b.how = "exit" THEN b.code
    ELSE IF b.how = "signal" THEN -1
    ELSE 0

\* utils.Execute: never fails; the return code stays 0 unless cmd.Run()
\* returns an error
Execute(b) ==
    [ReturnCode |-> IF RunFails(b) THEN getExitStatus(b) ELSE 0,
     StdOut     |-> b.stdout,
     StdErr     |-> b.stderr]

\* if *compileCmd != "" { execResult = utils.Execute(compileCmd, "") }
ExecCompile ==
    /\ flavour = "exec" /\ pc = "compile"
    /\ Returns(procs[1])
    /\ IF procs[1].how = "unset"
       THEN UNCHANGED <<execResult, invoked>>
       ELSE /\ execResult' = Execute(procs[1])
            /\ invoked' = Append(invoked, "compile")
    /\ pc' = "run"
    /\ UNCHANGED <<config, generators, flavour, outErr, outputs, dataset, student, teacher,
                   dataRes, solutionRes, results, solutions, resJson, tests,
                   procs, i, stats, feedbackV, status, printed, fatal>>

\* if *executeCmd != "" && execResult.ReturnCode == 0 { ... }
ExecRun ==
    /\ flavour = "exec" /\ pc = "run"
    /\ IF procs[2].how # "unset" /\ execResult.ReturnCode = 0
       THEN /\ Returns(procs[2])
            /\ execResult' = Execute(procs[2])
            /\ invoked' = Append(invoked, "execute")
       ELSE UNCHANGED <<execResult, invoked>>
    /\ pc' = "print"
    /\ UNCHANGED <<config, generators, flavour, outErr, outputs, dataset, student, teacher,
                   dataRes, solutionRes, results, solutions, resJson, tests,
                   procs, i, stats, feedbackV, status, printed, fatal>>

\* json.Marshal(execResult); fmt.Println; os.Exit(0)
ExecPrint ==
    /\ flavour = "exec" /\ pc = "print"
    /\ printed' = <<execResult>>
    /\ pc' = "done"
    /\ UNCHANGED <<invoked, config, generators, flavour, outErr, outputs, dataset, student,
                   teacher, dataRes, solutionRes, results, solutions, resJson,
                   tests, procs, i, stats, feedbackV, status, execResult, fatal>>

(***************************************************************************)
(* pythia-iot/main.go: the test subcommand                                 *)
(***************************************************************************)
\* nTrue: the number of true entries.  (Variant that counts every entry,
\* first.)
nTrue_CountsAll(b) == Len(b)

nTrue(b) == Cardinality({k \in 1..Len(b) : b[k]})

\* The IOExecutionResult of an error: inputs, outputs and valid are unset
TestError(res) ==
    [Tid |-> config.Tid, Status |-> "error", Message |-> res.StdErr,
     Inputs |-> <<>>, Outputs |-> [Actual |-> <<>>, Expected |-> <<>>],
     Valid |-> <<>>]

\* The IOExecutionResult after the loop
TestResult ==
    [Tid |-> config.Tid,
     Status |-> IF nTrue(results) # Len(config.Inputs) THEN "failed" ELSE "success",
     Message |-> <<>>,
     Inputs |-> IF config.Mirror THEN config.Inputs ELSE <<>>,
     Outputs |-> [Actual |-> outputs,
                  Expected |-> IF config.Mirror THEN config.Outputs ELSE <<>>],
     Valid |-> results]

\* var execResult; if *compileCmd != "" { execResult = utils.Execute(compileCmd, "") }
TestCompiled ==
    IF procs[1].how # "unset" THEN Execute(procs[1]) ELSE NoExecResult

\* if *executeCmd != "" && execResult.ReturnCode == 0 { execResult = utils.Execute(...) }
TestExecutes(k) == procs[k + 1].how # "unset" /\ TestCompiled.ReturnCode = 0

TestExecuted(k) ==
    IF TestExecutes(k) THEN Execute(procs[k + 1]) ELSE TestCompiled

\* test, first part: the configuration is read, results and outputs allocated
TestStart ==
    /\ flavour = "test" /\ pc = "start"
    /\ results' = [k \in 1..Len(config.Inputs) |-> FALSE]
    /\ outputs' = [k \in 1..Len(config.Inputs) |-> <<>>]
    /\ i' = 0
    /\ pc' = "loop"
    /\ UNCHANGED <<invoked, config, generators, flavour, outErr, dataset, student,
                   teacher, dataRes, solutionRes, solutions, resJson, tests, procs,
                   stats, feedbackV, status, execResult, printed, fatal>>

\* test, one iteration of the loop: compile, execute on input i, and either
\* the error report or the comparison with the expected output
TestLoop ==
    /\ flavour = "test" /\ pc = "loop"
    /\ i < Len(config.Inputs)
    /\ Returns(procs[1])
    /\ TestExecutes(i + 1) => Returns(procs[i + 2])
    /\ invoked' = invoked
                    \o (IF procs[1].how # "unset" THEN <<"compile">> ELSE <<>>)
                    \o (IF TestExecutes(i + 1) THEN <<"execute">> ELSE <<>>)
    /\ execResult' = TestExecuted(i + 1)
    /\ IF TestExecuted(i + 1).ReturnCode # 0
       THEN /\ printed' = <<TestError(TestExecuted(i + 1))>>
            /\ pc' = "done"
            /\ UNCHANGED <<outputs, results, i>>
       ELSE /\ outputs' = [outputs EXCEPT ![i + 1] = TestExecuted(i + 1).StdOut]
            /\ results' = [results EXCEPT
                              ![i + 1] = (TestExecuted(i + 1).StdOut = config.Outputs[i + 1])]
            /\ i' = i + 1
            /\ UNCHANGED <<printed, pc>>
    /\ UNCHANGED <<config, generators, flavour, outErr, dataset, student, teacher,
                   dataRes, solutionRes, solutions, resJson, tests, procs, stats,
                   feedbackV, status, fatal>>

\* test, last part: the report with the status, the outputs and valid
TestEnd ==
    /\ flavour = "test" /\ pc = "loop"
    /\ i = Len(config.Inputs)
    /\ printed' = <<TestResult>>
    /\ pc' = "done"
    /\ UNCHANGED <<invoked, config, generators, flavour, outErr, outputs, dataset,
                   student, teacher, dataRes, solutionRes, results, solutions,
                   resJson, tests, procs, i, stats, feedbackV, status, execResult,
                   fatal>>

(***************************************************************************)
(* generators: buildGenerator, BuildGenerators, Generate                   *)
(***************************************************************************)
\* A descriptor is a text of one-character atoms, but for the keywords
\* int, bool, float, str and enum, which are one atom each.
Digits == {"0", "1", "2", "3", "4", "5", "6", "7", "8", "9"}

NonZeroDigits == Digits \ {"0"}

\* -{0,1}[1-9][0-9]*
intPattern(t) ==
    LET u == IF t # <<>> /\ t[1] = "-" THEN Tail(t) ELSE t IN
    /\ u # <<>>
    /\ u[1] \in NonZeroDigits
    /\ \A p \in 2..Len(u) : u[p] \in Digits

\* -{0,1}[1-9][0-9]*(?:\.[0-9]*[1-9]){0,1}
floatPattern(t) ==
    \/ intPattern(t)
    \/ \E p \in 1..Len(t) :
        /\ t[p] = "."
        /\ intPattern(SubSeq(t, 1, p - 1))
        /\ p < Len(t)
        /\ \A q \in (p + 1)..Len(t) : t[q] \in Digits
        /\ t[Len(t)] \in NonZeroDigits

\* the text t matches the pattern named P as a whole
PatternMatches(P, t) == IF P = "intPattern" THEN intPattern(t) ELSE floatPattern(t)

\* positions of the "," of desc at which ^kw\((P),(P)\)$ matches with P as
\* pattern of both groups
CallMatches(desc, kw, P) ==
    IF Len(desc) < 4 \/ desc[1] # kw \/ desc[2] # "(" \/ desc[Len(desc)] # ")"
    THEN {}
    ELSE {p \in 3..(Len(desc) - 1) :
            /\ desc[p] = ","
            /\ PatternMatches(P, SubSeq(desc, 3, p - 1))
            /\ PatternMatches(P, SubSeq(desc, p + 1, Len(desc) - 1))}

\* matches[1] and matches[2] of FindStringSubmatch
Submatches(desc, kw, P) ==
    LET p == CHOOSE q \in CallMatches(desc, kw, P) : TRUE IN
    <<SubSeq(desc, 3, p - 1), SubSeq(desc, p + 1, Len(desc) - 1)>>

DigitValue(d) == CHOOSE n \in 0..9 : ToString(n) = d

RECURSIVE Natural(_)
\* value of a text of digits
Natural(t) ==
    IF t = <<>> THEN 0
    ELSE 10 * Natural(SubSeq(t, 1, Len(t) - 1)) + DigitValue(t[Len(t)])

\* smallest and largest value of the int type
MinInt == 0 - 2^(IntBits - 1)

MaxInt == 2^(IntBits - 1) - 1

\* the int that an arithmetic result x wraps to
Wrap(x) == ((x - MinInt) % 2^IntBits) + MinInt

\* strconv.Atoi on a text that matches intPattern: a value that does not
\* fit the int type comes back as the nearest value that does (with an
\* error, which buildGenerator drops)
Atoi(t) ==
    LET v == IF t[1] = "-" THEN 0 - Natural(Tail(t)) ELSE Natural(t) IN
    IF v < MinInt THEN MinInt ELSE IF v > MaxInt THEN MaxInt ELSE v

\* ^enum\((.+)\)$ : the group is any non-empty text without line break
EnumMatches(desc) ==
    /\ Len(desc) >= 4
    /\ desc[1] = "enum" /\ desc[2] = "(" /\ desc[Len(desc)] = ")"
    /\ \A p \in 3..(Len(desc) - 1) : desc[p] # "\n"

\* the nil RandomGenerator
NilGenerator == [kind |-> "nil"]

buildGenerator(desc) ==
    IF CallMatches(desc, "int", "intPattern") # {}
    THEN LET m == Submatches(desc, "int", "intPattern") IN
         [kind |-> "int", Min |-> Atoi(m[1]), Max |-> Atoi(m[2])]
    ELSE IF desc = <<"bool">>
    THEN [kind |-> "bool"]
    ELSE IF CallMatches(desc, "float", "floatPattern") # {}
    THEN LET m == Submatches(desc, "float", "floatPattern") IN
         [kind |-> "float", Min |-> m[1], Max |-> m[2]]
    ELSE IF CallMatches(desc, "str", "intPattern") # {}
    THEN LET m == Submatches(desc, "str", "intPattern") IN
         [kind |-> "str", MinLength |-> Atoi(m[1]), MaxLength |-> Atoi(m[2])]
    ELSE IF EnumMatches(desc)
    THEN [kind |-> "enum", Values |-> Split(SubSeq(desc, 3, Len(desc) - 1), ",")]
    ELSE NilGenerator

BuildGenerators(descs) == [j \in 1..Len(descs) |-> buildGenerator(descs[j])]

\* rand.Int63() and rand.Float64() (in halves): the values drawn
Int63Draws == {0, 1, MaxInt}

Float64Draws == {0, 1}

\* a % b of Go for a >= 0 and b # 0: the sign of the result is that of a
GoRem(a, b) == IF b > 0 THEN a % b ELSE a % (0 - b)

\* randint on the draw r; max - min + 1 = 0 is a division by zero
randint(min, max, r) == Wrap(min + GoRem(r, Wrap(max - min + 1)))

RandintPanics(min, max) == Wrap(max - min + 1) = 0

alphabet ==
    << "a", "b", "c", "d", "e", "f", "g", "h", "i", "j", "k", "l", "m",
       "n", "o", "p", "q", "r", "s", "t", "u", "v", "w", "x", "y", "z",
       "A", "B", "C", "D", "E", "F", "G", "H", "I", "J", "K", "L", "M",
       "N", "O", "P", "Q", "R", "S", "T", "U", "V", "W", "X", "Y", "Z",
       "0", "1", "2", "3", "4", "5", "6", "7", "8", "9" >>

\* strconv.ParseFloat on a text that matches floatPattern, in millionths
ParseFloat(t) ==
    LET u    == IF t[1] = "-" THEN Tail(t) ELSE t
        dot  == IndexOf(u, ".", 1)
        int  == IF dot = 0 THEN u ELSE SubSeq(u, 1, dot - 1)
        frac == IF dot = 0 THEN <<>> ELSE SubSeq(u, dot + 1, Len(u))
        abs  == Natural(int) * 1000000 + Natural(frac) * 10^(6 - Len(frac))
    IN IF t[1] = "-" THEN 0 - abs ELSE abs

\* fmt.Sprintf("%f", v) of a value v given in millionths
FormatFloat(v) ==
    LET abs == IF v < 0 THEN 0 - v ELSE v IN
    (IF v < 0 THEN <<"-">> ELSE <<>>)
        \o <<ToString(abs \div 1000000), ".">>
        \o [k \in 1..6 |-> ToString((abs \div 10^(6 - k)) % 10)]

\* the texts of length computed by StringRandomGenerator.Generate
StringsOfLength(length) ==
    IF length <= 0 THEN {<<>>}
    ELSE {[k \in 1..length |-> alphabet[randint(0, Len(alphabet) - 1, c[k]) + 1]] :
             c \in [1..length -> Int63Draws]}

\* g.Generate() panics: a nil interface value, or a division by zero
GeneratePanics(g) ==
    \/ g.kind = "nil"
    \/ g.kind = "int" /\ RandintPanics(g.Min, g.Max)
    \/ g.kind = "str" /\ RandintPanics(g.MinLength, g.MaxLength)

\* the texts g.Generate() can return
Generate(g) ==
    CASE g.kind = "int" ->
            {<<ToString(randint(g.Min, g.Max, r))>> : r \in Int63Draws}
      [] g.kind = "bool" -> {<<"true">>, <<"false">>}
      [] g.kind = "float" ->
            {FormatFloat(ParseFloat(g.Min)
                + (h * (ParseFloat(g.Max) - ParseFloat(g.Min))) \div 2) :
                h \in Float64Draws}
      [] g.kind = "str" ->
            UNION {StringsOfLength(randint(g.MinLength, g.MaxLength, r)) :
                      r \in Int63Draws}
      [] g.kind = "enum" ->
            {g.Values[randint(0, Len(g.Values) - 1, r) + 1] : r \in Int63Draws}

(***************************************************************************)
(* pythia-utbt.go: generate                                                *)
(***************************************************************************)
\* parseTestInputs panics: str[1:len(str)-1] on a text of fewer than two
\* characters
ParsePanics(str) == Len(str) < 2

\* parseTestInputs: strings.Split(str[1:len(str)-1], ","), each field trimmed
parseTestInputs(str) ==
    LET inputs == Split(SubSeq(str, 2, Len(str) - 1), ",") IN
    [j \in 1..Len(inputs) |-> TrimSpace(inputs[j])]

\* the records generateTestInputs can return: one field per generator
generateTestInputs(gens) ==
    {r \in [1..Len(gens) -> UNION {Generate(gens[j]) : j \in 1..Len(gens)}] :
        \A j \in 1..Len(gens) : r[j] \in Generate(gens[j])}

\* for _, data := range config.Predefined { writer.Write(parseTestInputs(data.Data)) }
GeneratePredefined ==
    /\ flavour = "generate" /\ pc = "predefined"
    /\ i < Len(config.Predefined)
    /\ IF ParsePanics(config.Predefined[i + 1])
       THEN /\ fatal' = "panic: slice bounds out of range"
            /\ pc' = "dead"
            /\ UNCHANGED <<dataset, i>>
       ELSE /\ dataset' = Append(dataset, parseTestInputs(config.Predefined[i + 1]))
            /\ i' = i + 1
            /\ UNCHANGED <<pc, fatal>>
    /\ UNCHANGED <<invoked, config, generators, flavour, outErr, outputs, student, teacher,
                   dataRes, solutionRes, results, solutions, resJson, tests,
                   procs, stats, feedbackV, status, execResult, printed>>

\* (Variant of the step below that generates random records only when more
\* than one is asked for.)
GenerateBuild_MoreThanOne ==
    /\ flavour = "generate" /\ pc = "predefined"
    /\ i = Len(config.Predefined)
    /\ IF config.N > 1
       THEN /\ generators' = <<BuildGenerators(config.Args)>>
            /\ pc' = "random"
       ELSE /\ pc' = "done"
            /\ UNCHANGED generators
    /\ i' = 0
    /\ UNCHANGED <<invoked, config, flavour, outErr, outputs, dataset, student, teacher,
                   dataRes, solutionRes, results, solutions, resJson, tests,
                   procs, stats, feedbackV, status, execResult, printed, fatal>>

\* if config.Random.N > 0 { generators := generators.BuildGenerators(...) }
GenerateBuild ==
    /\ flavour = "generate" /\ pc = "predefined"
    /\ i = Len(config.Predefined)
    /\ IF config.N > 0
       THEN /\ generators' = <<BuildGenerators(config.Args)>>
            /\ pc' = "random"
       ELSE /\ pc' = "done"
            /\ UNCHANGED generators
    /\ i' = 0
    /\ UNCHANGED <<invoked, config, flavour, outErr, outputs, dataset, student, teacher,
                   dataRes, solutionRes, results, solutions, resJson, tests,
                   procs, stats, feedbackV, status, execResult, printed, fatal>>

\* for i := 0; i < config.Random.N; i++ { writer.Write(generateTestInputs(generators)) }
GenerateRandom ==
    /\ flavour = "generate" /\ pc = "random"
    /\ i < config.N
    /\ IF \E j \in 1..Len(generators[1]) : GeneratePanics(generators[1][j])
       THEN /\ fatal' = IF \E j \in 1..Len(generators[1]) :
                              /\ generators[1][j].kind = "nil"
                              /\ \A h \in 1..(j - 1) : ~GeneratePanics(generators[1][h])
                        THEN "panic: nil pointer dereference"
                        ELSE "panic: integer divide by zero"
            /\ pc' = "dead"
            /\ UNCHANGED <<dataset, i>>
       ELSE /\ \E record \in generateTestInputs(generators[1]) :
                   dataset' = Append(dataset, record)
            /\ i' = i + 1
            /\ UNCHANGED <<pc, fatal>>
    /\ UNCHANGED <<invoked, config, generators, flavour, outErr, outputs, student, teacher,
                   dataRes, solutionRes, results, solutions, resJson, tests,
                   procs, stats, feedbackV, status, execResult, printed>>

\* return nil, after the last random record
GenerateEnd ==
    /\ flavour = "generate" /\ pc = "random"
    /\ i = config.N
    /\ pc' = "done"
    /\ UNCHANGED <<invoked, config, generators, flavour, outErr, outputs, dataset, student,
                   teacher, dataRes, solutionRes, results, solutions, resJson,
                   tests, procs, i, stats, feedbackV, status, execResult,
                   printed, fatal>>

(***************************************************************************)
(* Initial states and specification                                        *)
(***************************************************************************)
\* output/out.err when feedback starts: absent, or holding what the
\* learner's run wrote on its standard error
OutErrFiles == { <<>>, << <<"Exception in thread main">> >> }

\* the unit-testing pipeline on learner outcomes S and author answers T
InitUtbtOn(S, T) ==
    /\ flavour = "utbt"
    /\ outErr \in OutErrFiles
    /\ pc = "execute"
    /\ \E n \in 0..MaxRecords :
        \/ /\ dataset = DatasetOf(n)
           /\ student \in [1..n -> S]
           /\ teacher \in [1..n -> T]
        \* one row is not decodable; the methods are not reached on it
        \/ \E b \in 1..n :
           /\ dataset = DatasetWith(n, {b})
           /\ student \in [1..n -> S]
           /\ teacher \in [1..n -> T]
           /\ student[b] = [kind |-> "checked", payload |-> <<"5">>]
           /\ teacher[b] = <<"5">>
    /\ tests = <<>>
    /\ procs = <<>>
    /\ config = NoConfig

InitUtbt == InitUtbtOn(StudentOutcomes, TeacherAnswers)

\* a text that contains the separator ":"
HasColon(t) == \E p \in 1..Len(t) : t[p] = ":"

\* the same pipeline when no answer contains the separator ":"
InitUtbtPlain ==
    InitUtbtOn({o \in StudentOutcomes : ~HasColon(o.payload)},
               {t \in TeacherAnswers : ~HasColon(t)})

InitIot ==
    /\ flavour = "iot"
    /\ outErr = <<>>
    /\ pc = "start"
    /\ \E n \in 0..MaxRecords :
        /\ \E outs \in [1..n -> ExpectedOutputs] :
              tests = [k \in 1..n |-> TestOf(k, outs[k])]
        /\ procs \in [1..n -> Behaviours]
    /\ dataset = <<>>
    /\ student = <<>>
    /\ teacher = <<>>
    /\ config = NoConfig

InitPexec ==
    /\ flavour = "pexec"
    /\ outErr = <<>>
    /\ pc = "compile"
    /\ procs \in [1..2 -> Behaviours \cup {Unset}]
    /\ tests = <<>>
    /\ dataset = <<>>
    /\ student = <<>>
    /\ teacher = <<>>
    /\ config = NoConfig

InitExec ==
    /\ flavour = "exec"
    /\ outErr = <<>>
    /\ pc = "compile"
    /\ procs \in [1..2 -> Behaviours \cup {Unset}]
    /\ tests = <<>>
    /\ dataset = <<>>
    /\ student = <<>>
    /\ teacher = <<>>
    /\ config = NoConfig

\* data fields of config.Predefined
Literals ==
    { <<"(", " ", "2", ",", "3", " ", ")">>,
      <<"(", ")">>,
      <<"(">>,
      <<>> }

RECURSIVE DigitsOf(_)
\* the decimal digits of a natural number
DigitsOf(n) ==
    IF n < 10 THEN <<ToString(n)>>
    ELSE DigitsOf(n \div 10) \o <<ToString(n % 10)>>

\* the descriptor text kw(a,b)
Descriptor(kw, a, b) ==
    LET Literal(n) == IF n < 0 THEN <<"-">> \o DigitsOf(0 - n) ELSE DigitsOf(n) IN
    <<kw, "(">> \o Literal(a) \o <<",">> \o Literal(b) \o <<")">>

\* values of config.Random.Args
ArgLists ==
    { <<>>,
      << Descriptor("int", 0 - 2, 3) >>,
      << Descriptor("int", MinInt, MaxInt - 1) >>,
      << Descriptor("int", MinInt, MaxInt) >>,
      << Descriptor("str", 0 - 2, 0 - 1) >>,
      << Descriptor("str", 0, 1) >>,
      << <<"int", "(", "1", ",", "5", ")">> >>,
      << <<"int", "(", "1", ",", "5", ")">>, <<"bool">> >>,
      << <<"int", "(", "0", ",", "5", ")">> >>,
      << <<"int", "(", "3", ",", "2", ")">> >>,
      << <<"float", "(", "1", ",", "2", ".", "5", ")">> >>,
      << <<"str", "(", "1", ",", "2", ")">> >>,
      << <<"enum", "(", "a", ",", "b", ")">> >>,
      << <<"f", "o", "o">> >>,
      << <<"bool">>, <<"int", "(", "1", ";", "5", ")">> >> }

InitGenerate ==
    /\ flavour = "generate"
    /\ outErr = <<>>
    /\ pc = "predefined"
    /\ \E n \in 0..MaxRecords, predefined \in [1..MaxRecords -> Literals] :
        \E N \in (0 - 1)..MaxRandom, Args \in ArgLists :
            config = [Predefined |-> SubSeq(predefined, 1, n), N |-> N, Args |-> Args]
    /\ dataset = <<>>
    /\ student = <<>>
    /\ teacher = <<>>
    /\ tests = <<>>
    /\ procs = <<>>

\* what the compile command of the test subcommand can do
TestCompiles ==
    {Unset} \cup {b \in Behaviours : b.how = "exit" /\ b.stdout = <<"5">>}

\* what the execute command of the test subcommand can do on one input
TestRuns ==
    {b \in Behaviours : b.stdout # <<"5", "\n">> /\ (b.code = 0 \/ b.stderr # <<>>)}

\* the test subcommand on n inputs and n expected outputs; procs[1] is the
\* compile command, procs[k + 1] the execute command on input k
InitTest ==
    /\ flavour = "test"
    /\ outErr = <<>>
    /\ pc = "start"
    /\ \E n \in 0..MaxRecords, mirror \in BOOLEAN :
        /\ \E outs \in [1..n -> ExpectedOutputs] :
              config = [Tid     |-> Tid,
                        Inputs  |-> [k \in 1..n |-> <<ToString(k)>>],
                        Outputs |-> outs,
                        Mirror  |-> mirror]
        /\ \E c \in TestCompiles :
              \/ \E runs \in [1..n -> TestRuns] :
                    procs = <<c>> \o runs
              \/ procs = <<c>> \o [k \in 1..n |-> Unset]
    /\ tests = <<>>
    /\ dataset = <<>>
    /\ student = <<>>
    /\ teacher = <<>>

InitRest ==
    /\ outputs = <<>>
    /\ resJson = <<>>
    /\ dataRes = <<>>
    /\ solutionRes = <<>>
    /\ results = <<>>
    /\ solutions = <<>>
    /\ i = 0
    /\ stats = NoStats
    /\ feedbackV = NoFeedback
    /\ status = ""
    /\ execResult = NoExecResult
    /\ printed = <<>>
    /\ fatal = "none"
    /\ invoked = <<>>
    /\ generators = <<>>

Init ==
    (InitUtbt \/ InitIot \/ InitPexec \/ InitExec \/ InitGenerate \/ InitTest)
        /\ InitRest

InitPlain ==
    (InitUtbtPlain \/ InitIot \/ InitPexec \/ InitExec \/ InitGenerate \/ InitTest)
        /\ InitRest

Next ==
    \/ UtbtExecute
    \/ UtbtExecuteSolution
    \/ UtbtFeedbackStdErr
    \/ UtbtReadLines
    \/ UtbtFeedbackLoop
    \/ UtbtFeedbackEnd
    \/ IotExecuteStart
    \/ IotExecuteLoop
    \/ IotExecuteEnd
    \/ IotFeedbackStart
    \/ IotFeedbackLoop
    \/ IotFeedbackEnd
    \/ PexecCompile
    \/ PexecExecute
    \/ ExecCompile
    \/ ExecRun
    \/ ExecPrint
    \/ GeneratePredefined
    \/ GenerateBuild
    \/ GenerateRandom
    \/ GenerateEnd
    \/ TestStart
    \/ TestLoop
    \/ TestEnd

Spec == Init /\ [][Next]_vars

\* the pipelines on answers without ":" (a subset of the behaviours of Spec)
SpecPlain == InitPlain /\ [][Next]_vars

\* the steps of the unit-testing pipeline alone
NextUtbt ==
    \/ UtbtExecute
    \/ UtbtExecuteSolution
    \/ UtbtFeedbackStdErr
    \/ UtbtReadLines
    \/ UtbtFeedbackLoop
    \/ UtbtFeedbackEnd

InitUtbtAlone == InitUtbt /\ InitRest

SpecUtbt == InitUtbtAlone /\ [][NextUtbt]_vars

(***************************************************************************)
(* Vocabulary of the properties                                            *)
(*                                                                         *)
(* The properties speak of the outcome streams as the grader reads them:   *)
(* entry k of a stream is `status:payload`, the status being what precedes *)
(* the first ":" and the payload everything after it.                      *)
(***************************************************************************)
Graders == {"utbt", "iot"}

\* the grading loop has started (the streams have been read)
InGrading == flavour \in Graders /\ outErr = <<>> /\ pc \in {"loop", "done"}

\* feedback has printed a report (on any of its paths)
Emitted == flavour \in Graders /\ pc = "done" /\ printed # <<>>

\* the grading loop was entered: output/out.err could not be read
LoopEntered == flavour \in Graders /\ outErr = <<>>

\* a report has been printed at the end of the grading loop
Reported == Emitted /\ LoopEntered

Report == printed[1]

\* number of records of the dataset
NRecords == IF flavour = "utbt" THEN Len(dataset) ELSE Len(tests)

StatusOf(line) == SplitN2(line, ":")[1]

PayloadOf(line) ==
    IF Len(SplitN2(line, ":")) = 2 THEN SplitN2(line, ":")[2] ELSE <<>>

\* status of the submission outcome of record k (1-based)
SubmissionStatus(k) ==
    IF flavour = "utbt" THEN StatusOf(results[k]) ELSE results[k].Status

HasOutcome(k) == k \in 1..Len(results)

NonChecked(k) == HasOutcome(k) /\ SubmissionStatus(k) # <<"checked">>

\* record k matched: a checked outcome whose payload is the reference
\* payload (utbt) or the expected output (iot)
Matched(k) ==
    /\ HasOutcome(k)
    /\ SubmissionStatus(k) = <<"checked">>
    /\ IF flavour = "utbt"
       THEN k \in 1..Len(solutions) /\ PayloadOf(results[k]) = solutions[k]
       ELSE results[k].Output = tests[k].Output

Failing == {k \in 1..NRecords : ~Matched(k)}

FirstFailing == CHOOSE k \in Failing : \A j \in Failing : k <= j

\* textual rendering of record k in an example
InputText(k) ==
    IF flavour = "utbt" THEN <<"(">> \o Join(dataset[k], ",") \o <<")">>
    ELSE tests[k].Input

\* the report's example describes record k
ExampleIs(k) ==
    /\ Report.Feedback[1].Example # <<>>
    /\ Report.Feedback[1].Example[1].Input = InputText(k)

(***************************************************************************)
(* C1: when feedback completes and at least one record failed, the report  *)
(* carries at most one example, and that example describes the first       *)
(* failing record in dataset order.                                        *)
(***************************************************************************)
C1_ExampleIsFirstFailing ==
    (Reported /\ Failing # {} /\ Report.Feedback[1].Example # <<>>)
        => ExampleIs(FirstFailing)

(***************************************************************************)
(* C2: in every report of either grader the status is "success" exactly    *)
(* when stats.succeeded equals stats.total, and "failed" otherwise.        *)
(***************************************************************************)
C2_SuccessIffAllSucceeded ==
    Reported =>
        LET sts == Report.Feedback[1].Stats[1] IN
        /\ Report.Status \in {"success", "failed"}
        /\ (Report.Status = "success") <=> (sts.Succeeded = sts.Total)

\* a failed report that nevertheless counts a success
C2_Witness ==
    /\ Reported
    /\ Report.Status = "failed"
    /\ Report.Feedback[1].Stats[1].Succeeded = 1
    /\ Report.Feedback[1].Stats[1].Total = 2

(***************************************************************************)
(* C3: when the loop completes over N >= 1 records, stats.total is N,      *)
(* stats.succeeded is the number of records whose submission outcome       *)
(* matched, and the score is succeeded / total.                            *)
(***************************************************************************)
C3_StatsCountMatches ==
    (Reported /\ NRecords >= 1) =>
        LET sts == Report.Feedback[1].Stats[1]
            sc  == Report.Feedback[1].Score
        IN  /\ sts.Total = NRecords
            /\ sts.Succeeded = Cardinality({k \in 1..NRecords : Matched(k)})
            /\ sc.den # 0
            /\ sc.num * sts.Total = sts.Succeeded * sc.den

(***************************************************************************)
(* C4: a record whose submission status is not "checked" is never counted  *)
(* in succeeded, always makes the status "failed", and never makes         *)
(* feedback die, whatever the reference says for that record.              *)
(***************************************************************************)
GradingDead ==
    /\ flavour \in Graders
    /\ pc = "dead"
    /\ fatal \in {"panic: index out of range", "json: unsupported value: NaN"}

C4_NonCheckedAlwaysFails ==
    (InGrading \/ GradingDead) =>
        LET graded == {k \in 1..i : HasOutcome(k)} IN
        /\ \A k \in graded : NonChecked(k) =>
              /\ status = "failed"
              /\ ~(pc = "dead" /\ fatal = "panic: index out of range" /\ k = i)
              /\ fatal # "json: unsupported value: NaN"
        /\ stats.Succeeded <= Cardinality({k \in graded : ~NonChecked(k)})

\* an error record whose diagnostic is textually the reference answer
C4_Witness ==
    /\ Reported
    /\ NRecords = 2
    /\ NonChecked(2)
    /\ \/ flavour = "utbt" /\ Len(solutions) = 2
                           /\ PayloadOf(results[2]) = solutions[2]
       \/ flavour = "iot" /\ results[2].Output = tests[2].Output
    /\ Report.Status = "failed"
    /\ Report.Feedback[1].Stats[1].Succeeded = 1

(***************************************************************************)
(* C5: after an actor's run over N records, the stream read back by the    *)
(* grader has exactly N entries and entry k is the outcome of record k.    *)
(***************************************************************************)
C5_OneEntryPerRecord ==
    (flavour = "utbt" /\ outErr = <<>> /\ pc \in {"loop", "done", "dead"}) =>
        /\ Len(results) = Len(dataset)
        /\ \A k \in 1..Len(dataset) : results[k] = TestSuiteCheck(student[k])
        /\ Len(solutions) = Len(dataset)
        /\ \A k \in 1..Len(dataset) : solutions[k] = RunnerCheck(teacher[k])

(***************************************************************************)
(* C6: whenever the number of records differs from the number of entries   *)
(* of an outcome stream, feedback dies and prints no report.               *)
(***************************************************************************)
LengthMismatch ==
    \/ Len(results) # NRecords
    \/ flavour = "utbt" /\ Len(solutions) # NRecords

C6_LengthMismatchIsFatal ==
    (flavour \in Graders /\ outErr = <<>> /\ pc = "done") => ~LengthMismatch

(***************************************************************************)
(* C7: with an empty dataset feedback does not die: it prints a report     *)
(* with status "success" and a score of 0 or 1.                            *)
(***************************************************************************)
C7_EmptyDatasetReports ==
    (flavour \in Graders /\ outErr = <<>> /\ NRecords = 0) =>
        /\ fatal = "none"
        /\ pc = "done" =>
              /\ printed # <<>>
              /\ Report.Status = "success"
              /\ Report.Feedback[1].Score.den # 0
              /\ Report.Feedback[1].Score.num \in {0, Report.Feedback[1].Score.den}

(***************************************************************************)
(* C8: in the dual-execution grader the first record whose submission      *)
(* status is not "checked" sets the message to a string naming the failure *)
(* kind, and once the message is set no later record changes it.           *)
(***************************************************************************)
NonCheckedGraded == {k \in 1..i : NonChecked(k)}

FirstNonChecked == CHOOSE k \in NonCheckedGraded : \A j \in NonCheckedGraded : k <= j

C8_MessageOfFirstNonChecked ==
    /\ []((flavour = "utbt" /\ outErr = <<>> /\ pc \in {"loop", "done"}
                /\ NonCheckedGraded # {}) =>
            feedbackV.Message =
                <<"An error occurred with your code: ">>
                    \o SubmissionStatus(FirstNonChecked))
    /\ [][(flavour = "utbt" /\ feedbackV.Message # <<>>) =>
            feedbackV'.Message = feedbackV.Message]_vars

\* two failures of different kinds, the message names the first
C8_Witness ==
    /\ flavour = "utbt" /\ pc = "done" /\ outErr = <<>>
    /\ NRecords = 2
    /\ SubmissionStatus(1) = <<"error">>
    /\ SubmissionStatus(2) = <<"exception">>
    /\ feedbackV.Message = <<"An error occurred with your code: ", "error">>

(***************************************************************************)
(* C9: when exactly one record fails and its submission outcome is an      *)
(* error, then in both graders the record counts as a mismatch, the        *)
(* message is set, and the example is not populated from that record.      *)
(***************************************************************************)
C9_ErrorRecordScenario ==
    \A k \in 1..NRecords :
        (Reported /\ Failing = {k} /\ HasOutcome(k)
                  /\ SubmissionStatus(k) = <<"error">>) =>
            /\ Report.Status = "failed"
            /\ Report.Feedback[1].Stats[1].Succeeded = NRecords - 1
            /\ Report.Feedback[1].Message # <<>>
            /\ ~ExampleIs(k)

(***************************************************************************)
(* C10: a command that ran and exited non-zero is classified as an error   *)
(* whose payload is stderr when stderr is non-empty (even if stdout is     *)
(* non-empty too), and stdout otherwise when stdout is non-empty.          *)
(***************************************************************************)
ExitedNonZero(b) == b.how = "exit" /\ b.code # 0

\* tests whose command has been run by execute without killing it
IotExecuted ==
    IF flavour # "iot" THEN {}
    ELSE IF pc = "execute" THEN 1..i
    ELSE IF pc \in {"feedback", "loop", "done"} THEN 1..Len(tests)
    ELSE {}

C10_NonZeroExitIsError ==
    /\ \A k \in IotExecuted : ExitedNonZero(procs[k]) =>
          /\ procs[k].stderr # <<>> =>
                results[k] = [Status |-> <<"error">>, Output |-> procs[k].stderr]
          /\ (procs[k].stderr = <<>> /\ procs[k].stdout # <<>>) =>
                results[k] = [Status |-> <<"error">>, Output |-> procs[k].stdout]
    /\ (flavour = "pexec" /\ pc = "done" /\ procs[1].how = "unset"
            /\ ExitedNonZero(procs[2])) =>
          /\ printed # <<>>
          /\ printed[1].ReturnCode # 0
          /\ procs[2].stderr # <<>> =>
                (printed[1].StdErr = procs[2].stderr /\ printed[1].StdOut = <<>>)
          /\ (procs[2].stderr = <<>> /\ procs[2].stdout # <<>>) =>
                (printed[1].StdOut = procs[2].stdout /\ printed[1].StdErr = <<>>)

\* both streams non-empty: stderr wins
C10_Witness ==
    /\ flavour = "iot" /\ pc = "done"
    /\ Len(tests) = 2
    /\ ExitedNonZero(procs[2])
    /\ procs[2].stderr # <<>> /\ procs[2].stdout # <<>>
    /\ results[2].Output = procs[2].stderr

(***************************************************************************)
(* C11: in pythia-iot, a command that exits non-zero with stderr and       *)
(* stdout both empty makes the execute stage fail fatally: no outcome is   *)
(* recorded for that test and no result file is written.                   *)
(***************************************************************************)
SilentFailure(b) == ExitedNonZero(b) /\ b.stdout = <<>> /\ b.stderr = <<>>

\* tests whose command has been invoked by execute, whatever came of it
IotInvoked ==
    IF flavour # "iot" \/ pc = "start" THEN {}
    ELSE IF pc = "execute" \/ (pc = "dead" /\ fatal = "execute: command failed")
    THEN 1..i
    ELSE 1..Len(tests)

C11_SilentFailureIsFatal ==
    \A k \in IotInvoked : SilentFailure(procs[k]) =>
        /\ pc = "dead"
        /\ fatal = "execute: command failed"
        /\ results[k] = NoResult
        /\ resJson = <<>>
        /\ printed = <<>>

\* the second command fails silently after the first one was recorded
C11_Witness ==
    /\ flavour = "iot" /\ pc = "dead"
    /\ Len(tests) = 2 /\ i = 2
    /\ SilentFailure(procs[2])
    /\ results[1] # NoResult /\ results[2] = NoResult
    /\ resJson = <<>>

(***************************************************************************)
(* C12: in pythia-iot, a command that exits with code 0 is recorded as     *)
(* checked with the captured stdout minus its trailing line breaks as      *)
(* payload, so that an answer printed with a final newline matches the     *)
(* expected value written without it.                                      *)
(***************************************************************************)
CleanExit(b) == b.how = "exit" /\ b.code = 0

RECURSIVE WithoutTrailingLineBreaks(_)
WithoutTrailingLineBreaks(s) ==
    IF s # <<>> /\ s[Len(s)] = "\n"
    THEN WithoutTrailingLineBreaks(SubSeq(s, 1, Len(s) - 1)) ELSE s

C12_CleanExitIsCheckedTrimmed ==
    /\ \A k \in IotExecuted : CleanExit(procs[k]) =>
          results[k] = [Status |-> <<"checked">>,
                        Output |-> WithoutTrailingLineBreaks(procs[k].stdout)]
    /\ (flavour = "iot" /\ Reported
          /\ \A k \in 1..Len(tests) :
                /\ CleanExit(procs[k])
                /\ WithoutTrailingLineBreaks(procs[k].stdout) = tests[k].Output)
        => Report.Status = "success"

(***************************************************************************)
(* C13: in pythia-execute, whenever the compile command yields anything    *)
(* other than a clean exit (non-zero exit code, termination by a signal,   *)
(* or failure to start), the run command is never invoked and the compile  *)
(* outcome is the final result; the run command is invoked only after a    *)
(* compile command that started and exited with 0.                         *)
(***************************************************************************)
WasInvoked(name) == \E k \in 1..Len(invoked) : invoked[k] = name

C13_RunOnlyAfterCleanCompile ==
    (flavour \in {"pexec", "exec"} /\ WasInvoked("compile")) =>
        /\ WasInvoked("execute") => CleanExit(procs[1])
        /\ (flavour = "exec" /\ pc = "done" /\ ~CleanExit(procs[1])) =>
              printed = <<Execute(procs[1])>>

(***************************************************************************)
(* C15: when an external command cannot be started at all, the program     *)
(* dies with a fatal failure; the failure is never reported as an          *)
(* execution result, in particular not as return code 0 with empty output. *)
(***************************************************************************)
\* some command handed to the operating system could not be started
SpawnFailed ==
    \/ \E k \in IotInvoked : procs[k].how = "nostart"
    \/ /\ flavour \in {"pexec", "exec"}
       /\ \/ WasInvoked("compile") /\ procs[1].how = "nostart"
          \/ WasInvoked("execute") /\ procs[2].how = "nostart"

C15_SpawnFailureIsFatal ==
    SpawnFailed => (pc = "dead" /\ fatal # "none" /\ printed = <<>>)

(***************************************************************************)
(* C16: in the unit-testing runner, when evaluating record k raises an     *)
(* exception (in the learner's method or while decoding the arguments of   *)
(* the record), the line written for record k has kind exception with the  *)
(* description of the exception as payload, and every later record is      *)
(* still evaluated and gets its own line.                                  *)
(***************************************************************************)
\* evaluating record k raises an exception
Raises(k) ==
    \/ ~Decodes(dataset[k])
    \/ student[k].kind \in {"throws", "exception"}

DescriptionOf(k) ==
    IF ~Decodes(dataset[k]) THEN <<"java.lang.NumberFormatException">>
    ELSE student[k].payload

\* the line the runner owes to record k
LineOwed(k) ==
    IF Raises(k) THEN <<"exception", ":">> \o DescriptionOf(k)
    ELSE TestSuiteCheck(student[k])

C16_ExceptionIsLocalToItsRecord ==
    (flavour = "utbt" /\ pc # "execute") =>
        dataRes = <<RunnerRun([k \in 1..Len(dataset) |-> LineOwed(k)])>>

(***************************************************************************)
(* C14: in every flavour, a command that starts and then exits with a      *)
(* non-zero status never makes the execute stage, or the execution of the  *)
(* reference solution inside feedback, fail.                               *)
(***************************************************************************)
\* the stage died on a command that had started and exited non-zero
DiedOnNonZeroExit ==
    /\ pc = "dead"
    /\ \/ flavour = "utbt"
          /\ fatal \in {"execute: exit status 1", "feedback: exit status 1"}
       \/ flavour = "iot" /\ fatal = "execute: command failed"
          /\ ExitedNonZero(procs[i])
       \/ flavour = "pexec" /\ fatal = "compilation command failed"
          /\ ExitedNonZero(procs[1])
       \/ flavour = "pexec" /\ fatal = "execution command failed"
          /\ ExitedNonZero(procs[2])

C14_NonZeroExitNeverFatal == ~DiedOnNonZeroExit

(***************************************************************************)
(* C17: every invocation of an external command returns, even when the     *)
(* executed program never terminates: the program that invoked it is       *)
(* never left waiting for ever.                                            *)
(***************************************************************************)
\* the program is at the invocation of an external command
AtInvocation ==
    \/ flavour = "iot" /\ pc = "execute" /\ i < Len(tests)
    \/ flavour = "pexec" /\ pc = "compile" /\ procs[1].how # "unset"
    \/ flavour = "pexec" /\ pc = "run" /\ procs[2].how # "unset"
    \/ flavour = "exec" /\ pc = "compile" /\ procs[1].how # "unset"
    \/ flavour = "exec" /\ pc = "run" /\ procs[2].how # "unset"
          /\ execResult.ReturnCode = 0

C17_EveryInvocationReturns == AtInvocation => ENABLED Next

(***************************************************************************)
(* C18: the dataset written by generate is one record per predefined       *)
(* literal, in declaration order, followed by exactly random.n generated   *)
(* records with one field per descriptor each: |predefined| +              *)
(* max(random.n, 0) records, no random record before a predefined one.     *)
(* While generate runs, and when it dies, the file is a prefix of that.    *)
(***************************************************************************)
NPredefined == Len(config.Predefined)

NRandom == IF config.N > 0 THEN config.N ELSE 0

\* the text between the first and the last character of a literal
Inside(str) == SubSeq(str, 2, Len(str) - 1)

\* record k of the file is what the dataset owes at position k
RecordInPlace(k) ==
    IF k <= NPredefined
    THEN LET fields == Split(Inside(config.Predefined[k]), ",") IN
         dataset[k] = [j \in 1..Len(fields) |-> TrimSpace(fields[j])]
    ELSE Len(dataset[k]) = Len(config.Args)

C19_DatasetIsFrozen == [][flavour = "utbt" => dataset' = dataset]_vars

\* feedback has finished on a dataset of two records, read by both runs
C19_Witness ==
    /\ flavour = "utbt" /\ pc = "done"
    /\ Len(dataset) = 2 /\ dataset[1] # dataset[2]
    /\ dataRes # <<>> /\ solutionRes # <<>>
    /\ printed # <<>>

(***************************************************************************)
(* C20: a descriptor that matches none of the recognized grammars makes    *)
(* parsing fail, for every such descriptor and every value of random.n     *)
(* (0 included): no generator is returned for it, generation never runs    *)
(* on it and generate does not complete.                                   *)
(***************************************************************************)
\* an optional sign and at least one digit
IntegerLiteral(t) ==
    LET u == IF t # <<>> /\ t[1] = "-" THEN Tail(t) ELSE t IN
    u # <<>> /\ \A p \in 1..Len(u) : u[p] \in Digits

\* an integer literal, or one followed by "." and at least one digit
DecimalLiteral(t) ==
    \/ IntegerLiteral(t)
    \/ \E p \in 2..(Len(t) - 1) :
        /\ t[p] = "."
        /\ IntegerLiteral(SubSeq(t, 1, p - 1))
        /\ \A q \in (p + 1)..Len(t) : t[q] \in Digits

IsLiteral(decimal, t) == IF decimal THEN DecimalLiteral(t) ELSE IntegerLiteral(t)

\* desc is kw(a,b) with a and b integer (or, when asked, decimal) literals
IsCall(desc, kw, decimal) ==
    /\ Len(desc) >= 4
    /\ desc[1] = kw /\ desc[2] = "(" /\ desc[Len(desc)] = ")"
    /\ \E p \in 3..(Len(desc) - 1) :
        /\ desc[p] = ","
        /\ IsLiteral(decimal, SubSeq(desc, 3, p - 1))
        /\ IsLiteral(decimal, SubSeq(desc, p + 1, Len(desc) - 1))

MatchesNoGrammar(desc) ==
    /\ ~IsCall(desc, "int", FALSE)
    /\ ~IsCall(desc, "float", TRUE)
    /\ ~IsCall(desc, "str", FALSE)
    /\ desc # <<"bool">>
    /\ ~(Len(desc) >= 4 /\ desc[1] = "enum" /\ desc[2] = "("
            /\ desc[Len(desc)] = ")")

C20_MalformedDescriptorFailsAtParse ==
    (/\ flavour = "generate"
     /\ config.N >= 0
     /\ \E j \in 1..Len(config.Args) : MatchesNoGrammar(config.Args[j]))
        => (generators = <<>> /\ pc \notin {"random", "done"})

(***************************************************************************)
(* C21: every generator returned by the parser has min <= max (kinds int,  *)
(* float and str) or a non-empty list of values (kind enum); a descriptor  *)
(* with min > max is never turned into a generator.                        *)
(***************************************************************************)
WellFormed(g) ==
    CASE g.kind = "int"   -> g.Min <= g.Max
      [] g.kind = "float" -> ParseFloat(g.Min) <= ParseFloat(g.Max)
      [] g.kind = "str"   -> g.MinLength <= g.MaxLength
      [] g.kind = "enum"  -> Len(g.Values) >= 1
      [] OTHER            -> TRUE

C21_GeneratorsAreWellFormed ==
    (flavour = "generate" /\ generators # <<>>) =>
        \A j \in 1..Len(generators[1]) : WellFormed(generators[1][j])

(***************************************************************************)
(* C22: for every int generator with min <= max, Generate returns, for     *)
(* every random draw, the decimal text of an integer v with                *)
(* min <= v <= max; this includes bounds of opposite sign and ranges as    *)
(* wide as the int type allows.                                            *)
(***************************************************************************)
\* generate has parsed the descriptors, all of them into int generators
\* with min <= max
OnlySoundIntGenerators ==
    /\ flavour = "generate" /\ generators # <<>>
    /\ \A j \in 1..Len(generators[1]) :
          generators[1][j].kind = "int" /\ generators[1][j].Min <= generators[1][j].Max

C22_IntValuesInRange ==
    OnlySoundIntGenerators =>
        /\ fatal # "panic: integer divide by zero"
        /\ \A k \in (NPredefined + 1)..Len(dataset) :
              \A j \in 1..Len(generators[1]) :
                 \E v \in generators[1][j].Min..generators[1][j].Max :
                    dataset[k][j] = <<ToString(v)>>

(***************************************************************************)
(* C23: for every str generator parsed from str(a,b), every generated      *)
(* string has a length L with a <= L <= b and only characters of           *)
(* [A-Za-z0-9], for every pair of bounds the parser accepts (negative      *)
(* bounds included).                                                       *)
(***************************************************************************)
Letters ==
    { "a", "b", "c", "d", "e", "f", "g", "h", "i", "j", "k", "l", "m",
      "n", "o", "p", "q", "r", "s", "t", "u", "v", "w", "x", "y", "z",
      "A", "B", "C", "D", "E", "F", "G", "H", "I", "J", "K", "L", "M",
      "N", "O", "P", "Q", "R", "S", "T", "U", "V", "W", "X", "Y", "Z" }

C23_StrLengthAndAlphabet ==
    (flavour = "generate" /\ generators # <<>>) =>
        \A k \in (NPredefined + 1)..Len(dataset) :
           \A j \in 1..Len(generators[1]) :
              generators[1][j].kind = "str" =>
                 /\ generators[1][j].MinLength <= Len(dataset[k][j])
                 /\ Len(dataset[k][j]) <= generators[1][j].MaxLength
                 /\ \A p \in 1..Len(dataset[k][j]) :
                       dataset[k][j][p] \in Letters \cup Digits

(***************************************************************************)
(* C24: every grading report emitted by the feedback of the unit-testing   *)
(* flavour contains the task id and a definite status, and whenever it     *)
(* contains a feedback object that object contains a score field: also     *)
(* when no record succeeded, and on the path taken when the error-output   *)
(* file exists.                                                            *)
(***************************************************************************)
C24_ReportHasScore ==
    (Emitted /\ flavour = "utbt") =>
        /\ "tid" \in GradingFields(Report) /\ Report.Tid # <<>>
        /\ "status" \in GradingFields(Report)
        /\ Report.Status \in {"success", "failed"}
        /\ "feedback" \in GradingFields(Report) =>
              "score" \in FeedbackFields(Report.Feedback[1])

(***************************************************************************)
(* C25: in every report with status "success" the fields example and       *)
(* message are both absent; a report that contains an example or a message *)
(* has status "failed".                                                    *)
(***************************************************************************)
C25_SuccessHasNoExampleNoMessage ==
    Emitted =>
        /\ Report.Status = "success" =>
              FeedbackFields(Report.Feedback[1]) \cap {"example", "message"} = {}
        /\ FeedbackFields(Report.Feedback[1]) \cap {"example", "message"} # {} =>
              Report.Status = "failed"

\* a report of success over two records: stats and score only
C25_Witness ==
    /\ Emitted
    /\ NRecords = 2
    /\ Report.Status = "success"
    /\ FeedbackFields(Report.Feedback[1]) = {"stats", "score"}

(***************************************************************************)
(* C26: feedback emits a grading report only at the end of the grading     *)
(* loop, when every record of the dataset has been compared; no report is  *)
(* emitted before that, and every emitted report has status "success" or   *)
(* "failed".                                                               *)
(***************************************************************************)
\* the grading loop has gone through every record of the dataset
LoopCompleted == InGrading /\ pc = "loop" /\ i = NRecords

C26_ReportOnlyAfterLoop ==
    [][(flavour \in Graders /\ printed' # printed) =>
            /\ LoopCompleted
            /\ printed'[1].Status \in {"success", "failed"}]_vars

(***************************************************************************)
(* C27: for every predefined literal, generate produces exactly one record: *)
(* the text between the enclosing delimiters, split on ',', each field     *)
(* trimmed, in field order.  This holds for every literal, the empty       *)
(* string, a one-character string and "()" included, and generation is not *)
(* aborted.                                                                *)
(***************************************************************************)
\* generate has gone past literal number k
PastLiteral(k) ==
    flavour = "generate" /\ (pc \in {"random", "done"} \/ i >= k)

C27_OneRecordPerLiteral ==
    (flavour = "generate" /\ config.N >= 0) =>
        /\ fatal # "panic: slice bounds out of range"
        /\ \A k \in 1..NPredefined :
              PastLiteral(k) => (k <= Len(dataset) /\ RecordInPlace(k))

(***************************************************************************)
(* C28: in the dual-execution grader a record whose submission outcome is  *)
(* checked counts as a match exactly when the submission's whole payload   *)
(* (everything after the first ':') equals the reference payload of the    *)
(* same index; a checked payload that contains ':' and is identical to the *)
(* reference answer is counted as succeeded.                               *)
(***************************************************************************)
C28_WholePayloadCompared ==
    (flavour = "utbt" /\ InGrading) =>
        stats.Succeeded = Cardinality({k \in 1..i : Matched(k)})

(***************************************************************************)
(* C29: for all integer literals a <= b, a = 0 or b = 0 included, the      *)
(* descriptor int(a,b) is recognised and parses to the Int generator with  *)
(* Min = a and Max = b; str(a,b) with 0 <= a <= b parses to the Str        *)
(* generator with these bounds.                                            *)
(***************************************************************************)
\* the literals the property is evaluated on
SmallIntegers == (0 - 2)..5

C29_ZeroIsAnIntegerLiteral ==
    (flavour = "generate" /\ generators # <<>>) =>
        \A j \in 1..Len(config.Args) : \A a, b \in SmallIntegers :
            /\ (a <= b /\ config.Args[j] = Descriptor("int", a, b)) =>
                  generators[1][j] = [kind |-> "int", Min |-> a, Max |-> b]
            /\ (0 <= a /\ a <= b /\ config.Args[j] = Descriptor("str", a, b)) =>
                  generators[1][j] =
                      [kind |-> "str", MinLength |-> a, MaxLength |-> b]

(***************************************************************************)
(* C30: the test subcommand of the input/output flavour, on n inputs and n *)
(* expected outputs, reports "success" exactly when every command run      *)
(* exited with code 0 and every actual standard output is the expected     *)
(* output of the same index (valid[i] is true exactly for those indices);  *)
(* it reports "error" as soon as the command for some input exits          *)
(* non-zero, and no later input is executed; it reports "failed"           *)
(* otherwise.                                                              *)
(***************************************************************************)
\* the command ended with an exit status other than 0
NonZeroExit(b) == (b.how = "exit" /\ b.code # 0) \/ b.how = "signal"

\* a command run for input k ended with an exit status other than 0
ExitsNonZeroAt(k) ==
    \/ NonZeroExit(procs[1])
    \/ NonZeroExit(procs[k + 1])

\* the standard output of the last command run for input k
ActualStdout(k) ==
    IF procs[k + 1].how # "unset" THEN procs[k + 1].stdout
    ELSE procs[1].stdout

ValidAt(k) == ActualStdout(k) = config.Outputs[k]

TestInputs == 1..Len(config.Inputs)

TestReported == flavour = "test" /\ pc = "done"

\* number of runs of the execute command
NExecuted == Cardinality({p \in 1..Len(invoked) : invoked[p] = "execute"})

C30_TestVerdict ==
    TestReported =>
        /\ printed # <<>>
        /\ Report.Status = "success" <=>
              \A k \in TestInputs : ~ExitsNonZeroAt(k) /\ ValidAt(k)
        /\ Report.Status = "error" <=> \E k \in TestInputs : ExitsNonZeroAt(k)
        /\ Report.Status \in {"success", "error", "failed"}
        /\ Report.Status # "error" =>
              Report.Valid = [k \in TestInputs |-> ValidAt(k)]
        /\ Report.Status = "error" =>
              \E k \in TestInputs :
                 /\ ExitsNonZeroAt(k)
                 /\ \A j \in 1..(k - 1) : ~ExitsNonZeroAt(j)
                 /\ i = k - 1
                 /\ NExecuted <= k

\* two inputs, both executed: the second output is not the expected one and
\* the report is "failed" with valid = [true, false]
C30_Witness ==
    /\ TestReported
    /\ Len(config.Inputs) = 2
    /\ NExecuted = 2
    /\ Report.Status = "failed"
    /\ Report.Valid = <<TRUE, FALSE>>

====
